---- MODULE Spec2Model ----
(***************************************************************************)
(* Model of the hint Hacker News reader: the HnStoryList aggregate          *)
(* (src/src/hint_hackernews.rs), the remote source (src/src/hnreader.rs)    *)
(* and the main / update-thread hand-off over the mpsc channel              *)
(* (src/src/main.rs).                                                       *)
(*                                                                          *)
(* Rust indices are 0-based, TLA+ sequences are 1-based: vec[i] is seq[i+1].*)
(***************************************************************************)
EXTENDS Integers, Sequences, FiniteSets, TLC

\* ------------------------------------------------------------- bounds
\* longest identifier list the top-stories endpoint returns in the model
MaxIds == 13
\* how many detail fetches may fail in one run
MaxFail == 2
\* how many direct calls of the list's public operations SpecApi makes
MaxCalls == 3
\* how many of those may be successful direct add_story_at_index calls
MaxDirect == 1

\* ------------------------------------------------- program constants
\* HnStoryList::new stops its loop once i > 10
PreloadLast == 10
\* mpsc::channel::<HnStory>(100)
ChanCap == 100

Min(a, b) == IF a < b THEN a ELSE b

\* ------------------------------------------------------------- values
\* a String: a literal of the program, or text that came from the remote
\* item `of`
Text(s, n) == [lit |-> s, of |-> n]

\* Option<T>
None == [some |-> FALSE, val |-> Text("", 0)]
Some(v) == [some |-> TRUE, val |-> v]
unwrap_or_else(opt, d) == IF opt.some THEN opt.val ELSE d

\* struct HnStory
HnStory(id, author, title, url) ==
    [id |-> id, author |-> author, title |-> title, url |-> url, hntype |-> "Story"]

NoStory == HnStory(0, Text("", 0), Text("", 0), None)

\* Result<HnStory, String> and Result<(), String>
Ok(v) == [ok |-> TRUE, val |-> v, err |-> ""]
Err(e) == [ok |-> FALSE, val |-> NoStory, err |-> e]

\* ------------------------------------------------------ remote source
\* the item the remote holds for an identifier: any of title and url may be
\* absent (ids divisible by 4 have no title, ids divisible by 3 no url)
RemoteStory(sid) ==
    [id |-> sid,
     title |-> IF sid % 4 = 0 THEN None ELSE Some(Text("title", sid)),
     url |-> IF sid % 3 = 0 THEN None ELSE Some(Text("url", sid))]

\* hnreader::fetch_story_details: up == FALSE is a transport or decode error
fetch_story_details(story_id, up) ==
    [ok |-> up, story |-> RemoteStory(story_id)]

\* the ranking the remote returns: the n identifiers 7, 8, 9, ..
Ranking(n) == [k \in 1..n |-> 6 + k]

\* hnreader::fetch_top_stories
fetch_top_stories(up, n) ==
    [ok |-> up, val |-> IF up THEN Ranking(n) ELSE <<>>]

\* ------------------------------------------------------- HnStoryList
EmptyList ==
    [storyidlist |-> <<>>, storylist |-> <<>>, story_writer |-> 0, story_maxlen |-> 0]

\* the for loop of HnStoryList::new, from iteration i on; failed is the set of
\* iterations whose fetch_story_details fails
RECURSIVE NewLoop(_, _, _, _, _)
NewLoop(story_ids, i, storydets, idx, failed) ==
    IF i >= Len(story_ids) \/ i > PreloadLast
    THEN [storydets |-> storydets, idx |-> idx]
    ELSE LET r == fetch_story_details(story_ids[i + 1], i \notin failed)
             title == IF r.ok THEN unwrap_or_else(r.story.title, Text("Untitled", 0))
                              ELSE Text("abc", 0)
             url == IF r.ok THEN unwrap_or_else(r.story.url, Text("http://example.com", 0))
                            ELSE Text("hcker", 0)
         IN NewLoop(story_ids, i + 1,
                    Append(storydets, HnStory(i, Text("Unknown", 0), title, Some(url))),
                    idx + 1, failed)

\* a bug: the writer is set as if the whole prefix had been loaded
HnStoryList_new_full_prefix(top, failed) ==
    IF top.ok
    THEN LET story_ids == top.val
             l == NewLoop(story_ids, 0, <<>>, 0, failed)
         IN [storyidlist |-> story_ids,
             storylist |-> l.storydets,
             story_writer |-> PreloadLast + 1,
             story_maxlen |-> Len(story_ids)]
    ELSE EmptyList

\* a bug: the list built after a failed identifier fetch keeps the prefix
\* length as its story_maxlen
HnStoryList_new_default_limit(top, failed) ==
    IF top.ok
    THEN LET story_ids == top.val
             l == NewLoop(story_ids, 0, <<>>, 0, failed)
         IN [storyidlist |-> story_ids,
             storylist |-> l.storydets,
             story_writer |-> l.idx,
             story_maxlen |-> Len(story_ids)]
    ELSE [EmptyList EXCEPT !.story_maxlen = PreloadLast + 1]

\* HnStoryList::new
HnStoryList_new(top, failed) ==
    IF top.ok
    THEN LET story_ids == top.val
             l == NewLoop(story_ids, 0, <<>>, 0, failed)
         IN [storyidlist |-> story_ids,
             storylist |-> l.storydets,
             story_writer |-> l.idx,
             story_maxlen |-> Len(story_ids)]
    ELSE EmptyList

\* HnStoryList::iter, run to its end
iter(self) == self.storylist

\* HnStoryList::is_filled
is_filled(self) == self.story_writer = self.story_maxlen

\* Vec::insert
VecInsert(v, index, x) ==
    SubSeq(v, 1, index) \o <<x>> \o SubSeq(v, index + 1, Len(v))

\* a bug add_story_at_index could have: an index past the end appends
add_story_at_index_clamps(self, index, story) ==
    [self |-> [self EXCEPT !.storylist =
                   VecInsert(self.storylist, Min(index, Len(self.storylist)), story)],
     result |-> Ok(NoStory)]

\* HnStoryList::add_story_at_index
add_story_at_index(self, index, story) ==
    IF index > Len(self.storylist)
    THEN [self |-> self, result |-> Err("Index out of bounds")]
    ELSE [self |-> [self EXCEPT !.storylist = VecInsert(self.storylist, index, story)],
          result |-> Ok(NoStory)]

\* a bug: the story takes its id after the writer has moved
update_story_off_by_one(self, story) ==
    HnStory(self.story_writer + 1, Text("Unknown", 0),
            unwrap_or_else(story.title, Text("Untitled", 0)),
            Some(unwrap_or_else(story.url, Text("http://example.com", 0))))

\* update_story_details, the fetch succeeded: the HnStory built from the item
update_story(self, story) ==
    HnStory(self.story_writer, Text("Unknown", 0),
            unwrap_or_else(story.title, Text("Untitled", 0)),
            Some(unwrap_or_else(story.url, Text("http://example.com", 0))))

\* a bug: the story is inserted and the writer stays
update_commit_no_advance(self, hnstory) ==
    LET a == add_story_at_index(self, self.story_writer, hnstory) IN
    IF ~a.result.ok
    THEN [self |-> self, result |-> Err("Failed to add story at index")]
    ELSE [self |-> a.self, result |-> Ok(hnstory)]

\* a bug: the writer moves two places for one story and can pass story_maxlen
update_commit_advances_twice(self, hnstory) ==
    LET a == add_story_at_index(self, self.story_writer, hnstory) IN
    IF ~a.result.ok
    THEN [self |-> self, result |-> Err("Failed to add story at index")]
    ELSE [self |-> [a.self EXCEPT !.story_writer = self.story_writer + 2],
          result |-> Ok(hnstory)]

\* update_story_details, the commit: add_story_at_index(story_writer, ..)?,
\* story_writer += 1, Ok(hnstory)
update_commit(self, hnstory) ==
    LET a == add_story_at_index(self, self.story_writer, hnstory) IN
    IF ~a.result.ok
    THEN [self |-> self, result |-> Err("Failed to add story at index")]
    ELSE [self |-> [a.self EXCEPT !.story_writer = self.story_writer + 1],
          result |-> Ok(hnstory)]

\* a bug: a failed fetch commits the default story, as HnStoryList::new does
update_fetch_failed_commits(self) ==
    [self |-> [self EXCEPT
                  !.storylist = Append(self.storylist,
                                       HnStory(self.story_writer, Text("Unknown", 0),
                                               Text("Untitled", 0),
                                               Some(Text("http://example.com", 0)))),
                  !.story_writer = self.story_writer + 1],
     result |-> Err("Failed to fetch story details")]

\* update_story_details, the fetch failed: return Err(..), nothing else
update_fetch_failed(self) ==
    [self |-> self, result |-> Err("Failed to fetch story details")]

\* a bug: the exhaustion test is > where it should be >=, so a call on a
\* filled list indexes storyidlist[story_writer] past its end and panics
update_story_details_gt(self, up) ==
    IF self.story_writer > self.story_maxlen
    THEN [self |-> self, result |-> Err("No more stories to process"), fetched |-> <<>>]
    ELSE IF self.story_writer >= Len(self.storyidlist)
    THEN [self |-> self, result |-> Err("panic: index out of bounds"), fetched |-> <<>>]
    ELSE LET hnstoryid == self.storyidlist[self.story_writer + 1]
             r == fetch_story_details(hnstoryid, up)
             c == IF r.ok THEN update_commit(self, update_story(self, r.story))
                          ELSE update_fetch_failed(self)
         IN [self |-> c.self, result |-> c.result, fetched |-> <<hnstoryid>>]

\* HnStoryList::update_story_details; up tells whether the detail fetch, if
\* one is issued, succeeds.  fetched is the sequence of identifiers fetched.
update_story_details(self, up) ==
    IF self.story_writer >= self.story_maxlen
    THEN [self |-> self, result |-> Err("No more stories to process"), fetched |-> <<>>]
    ELSE LET hnstoryid == self.storyidlist[self.story_writer + 1]
             r == fetch_story_details(hnstoryid, up)
             c == IF r.ok THEN update_commit(self, update_story(self, r.story))
                          ELSE update_fetch_failed(self)
         IN [self |-> c.self, result |-> c.result, fetched |-> <<hnstoryid>>]

\* a bug: the story sent carries no position
callback_story_no_position(story_list, newstory) ==
    HnStory(0, Text("Unknown", 0), newstory.title,
            Some(Text("http://updated-url.com", 0)))

\* the story the update thread builds from the result of update_story_details
\* (newstory is the unwrapped Ok value)
callback_story(story_list, newstory) ==
    HnStory(story_list.story_writer, Text("Unknown", 0), newstory.title,
            Some(Text("http://updated-url.com", 0)))

\* DisplayListItem::from_hnstory
from_hnstory(story) ==
    [status |-> "Unread", title |-> story.title, details |-> "Tobe filled in later"]

\* ------------------------------------------------------------- state
VARIABLES
    top,          \* the result of fetch_top_stories at startup
    story_list,   \* main's HnStoryList (the one inside Arc<Mutex<..>>)
    mainpc,       \* where main is
    items,        \* hintapp.storylist.items
    should_exit,  \* hintapp.should_exit
    task_pc,      \* the tokio task that starts the update thread
    thr_pc,       \* where the update thread is
    thr_list,     \* the update thread's story_list (the clone)
    thr_story,    \* the story the update thread is sending
    chan,         \* the stories queued in the mpsc channel
    senders,      \* live Sender handles
    rx_open,      \* the Receiver is alive
    received,     \* history: the stories rx.recv() returned, in order
    fetchLog,     \* history: every detail fetch, [sid, ok, by]
    failures,     \* history: detail fetches that failed
    lock,         \* who holds the Mutex around main's list ("none": no Mutex yet)
    keep_running, \* the update thread's keep_running
    newstory,     \* the update thread's newstory, the last result it got
    lastCall,     \* history (SpecApi): the last direct call and its result
    calls,        \* history (SpecApi): direct calls made
    directs       \* history (SpecApi): successful direct add_story_at_index calls

vars == <<top, story_list, mainpc, items, should_exit, task_pc, thr_pc, thr_list,
          thr_story, chan, senders, rx_open, received, fetchLog, failures,
          lock, keep_running, newstory, lastCall, calls, directs>>

progVars == <<mainpc, items, should_exit, task_pc, thr_pc, thr_list, thr_story,
              chan, senders, rx_open, received, lock, keep_running, newstory>>
apiVars == <<lastCall, calls, directs>>

NoCall ==
    [op |-> "none", index |-> 0, result |-> Err(""), before |-> EmptyList,
     fetched |-> <<>>, retryPos |-> -1, retrySid |-> 0, failedPos |-> -1, failedSid |-> 0]

Init ==
    /\ top = [ok |-> FALSE, val |-> <<>>]
    /\ story_list = EmptyList
    /\ mainpc = "new"
    /\ items = <<>>
    /\ should_exit = FALSE
    /\ task_pc = "none"
    /\ thr_pc = "none"
    /\ thr_list = EmptyList
    /\ thr_story = NoStory
    /\ chan = <<>>
    /\ senders = 0
    /\ rx_open = FALSE
    /\ received = <<>>
    /\ fetchLog = <<>>
    /\ failures = 0
    /\ lock = "none"
    /\ keep_running = TRUE
    /\ newstory = Err("")
    /\ lastCall = NoCall
    /\ calls = 0
    /\ directs = 0

\* the sets of failing iterations HnStoryList::new may meet
FailSets(n) ==
    {f \in SUBSET (0..(Min(n, PreloadLast + 1) - 1)) : Cardinality(f) <= MaxFail}

\* the detail fetches HnStoryList::new makes
NewFetches(ids, failed, by) ==
    [k \in 1..Min(Len(ids), PreloadLast + 1) |->
        [sid |-> ids[k], ok |-> (k - 1) \notin failed, by |-> by]]

\* the construction of the list: let story_list = HnStoryList::new().await
Construct ==
    \E up \in BOOLEAN, n \in 0..MaxIds :
        LET t == fetch_top_stories(up, n) IN
        \E failed \in FailSets(Len(t.val)) :
            /\ top' = t
            /\ story_list' = HnStoryList_new(t, failed)
            /\ fetchLog' = NewFetches(t.val, failed, "new")
            /\ failures' = Cardinality(failed)

\* ------------------------------------------------------ main (main.rs)
\* a bug: the Mutex is built around an empty list and main fetches into it
\* with the guard held
New_locks_first ==
    /\ mainpc = "new"
    /\ lock = "none"
    /\ lock' = "main"
    /\ UNCHANGED <<top, story_list, fetchLog, failures, mainpc, items, should_exit,
                   task_pc, thr_pc, thr_list, thr_story, chan, senders, rx_open,
                   received, keep_running, newstory>>
    /\ UNCHANGED apiVars

\* main: Arc::new(Mutex::new(HnStoryList::new().await)): the list is built,
\* then the Mutex around it
New ==
    /\ mainpc = "new"
    /\ Construct
    /\ lock' = "free"
    /\ mainpc' = "iterate"
    /\ UNCHANGED <<items, should_exit, task_pc, thr_pc, thr_list, thr_story,
                   chan, senders, rx_open, received, keep_running, newstory>>
    /\ UNCHANGED apiVars

\* main: mpsc::channel(100), then story_list.lock().await.iter(): under the
\* lock the stories of the list go to the display
MainIterate ==
    /\ mainpc = "iterate"
    /\ lock = "free"
    /\ lock' = "main"
    /\ senders' = 1
    /\ rx_open' = TRUE
    /\ items' = items \o [k \in 1..Len(iter(story_list)) |-> from_hnstory(iter(story_list)[k])]
    /\ mainpc' = "unlock"
    /\ UNCHANGED <<top, story_list, should_exit, task_pc, thr_pc, thr_list, thr_story,
                   chan, received, fetchLog, failures, keep_running, newstory>>
    /\ UNCHANGED apiVars

\* main: the guard of story_list.lock() is dropped as the for loop ends
MainUnlock ==
    /\ mainpc = "unlock"
    /\ lock' = "free"
    /\ mainpc' = "spawn"
    /\ UNCHANGED <<top, story_list, items, should_exit, task_pc, thr_pc, thr_list,
                   thr_story, chan, senders, rx_open, received, fetchLog, failures,
                   keep_running, newstory>>
    /\ UNCHANGED apiVars

\* main: tokio::spawn of the task that starts the update thread
MainSpawn ==
    /\ mainpc = "spawn"
    /\ task_pc' = "ready"
    /\ mainpc' = "recv"
    /\ UNCHANGED <<top, story_list, items, should_exit, thr_pc, thr_list, thr_story,
                   chan, senders, rx_open, received, fetchLog, failures,
                   lock, keep_running, newstory>>
    /\ UNCHANGED apiVars

\* the task: story_list_clone.lock().await
TaskLock ==
    /\ task_pc = "ready"
    /\ lock = "free"
    /\ lock' = "task"
    /\ task_pc' = "locked"
    /\ UNCHANGED <<top, story_list, mainpc, items, should_exit, thr_pc, thr_list,
                   thr_story, chan, senders, rx_open, received, fetchLog, failures,
                   keep_running, newstory>>
    /\ UNCHANGED apiVars

\* the task, under the lock: start_update_thread_with_callback(tx.clone());
\* the thread gets a clone of the list and the cloned Sender
start_update_thread_with_callback ==
    /\ task_pc = "locked"
    /\ thr_list' = story_list
    /\ thr_pc' = "update"
    /\ keep_running' = TRUE
    /\ senders' = senders + 1
    /\ task_pc' = "started"
    /\ UNCHANGED <<top, story_list, mainpc, items, should_exit, thr_story, chan,
                   rx_open, received, fetchLog, failures, lock, newstory>>
    /\ UNCHANGED apiVars

\* a bug: the Sender moved into the task outlives it (as it would had main
\* kept tx and handed the task a clone)
TaskEnd_keeps_sender ==
    /\ task_pc = "started"
    /\ lock' = "free"
    /\ task_pc' = "done"
    /\ UNCHANGED <<top, story_list, mainpc, items, should_exit, thr_pc, thr_list,
                   thr_story, chan, senders, rx_open, received, fetchLog, failures,
                   keep_running, newstory>>
    /\ UNCHANGED apiVars

\* the task ends: the guard and the task's own Sender are dropped
TaskEnd ==
    /\ task_pc = "started"
    /\ lock' = "free"
    /\ senders' = senders - 1
    /\ task_pc' = "done"
    /\ UNCHANGED <<top, story_list, mainpc, items, should_exit, thr_pc, thr_list,
                   thr_story, chan, rx_open, received, fetchLog, failures,
                   keep_running, newstory>>
    /\ UNCHANGED apiVars

\* a bug: the story received replaces what the display shows
MainRecv_replaces ==
    /\ mainpc = "recv"
    /\ chan # <<>>
    /\ received' = Append(received, Head(chan))
    /\ items' = <<from_hnstory(Head(chan))>>
    /\ chan' = Tail(chan)
    /\ mainpc' = "draw"
    /\ UNCHANGED <<top, story_list, should_exit, task_pc, thr_pc, thr_list, thr_story,
                   senders, rx_open, fetchLog, failures, lock, keep_running, newstory>>
    /\ UNCHANGED apiVars

\* main loop: rx.recv().await returns a story
MainRecv ==
    /\ mainpc = "recv"
    /\ chan # <<>>
    /\ received' = Append(received, Head(chan))
    /\ items' = Append(items, from_hnstory(Head(chan)))
    /\ chan' = Tail(chan)
    /\ mainpc' = "draw"
    /\ UNCHANGED <<top, story_list, should_exit, task_pc, thr_pc, thr_list, thr_story,
                   senders, rx_open, fetchLog, failures, lock, keep_running, newstory>>
    /\ UNCHANGED apiVars

\* main loop: rx.recv().await returns None, every Sender is gone
MainRecvClosed ==
    /\ mainpc = "recv"
    /\ chan = <<>>
    /\ senders = 0
    /\ mainpc' = "draw"
    /\ UNCHANGED <<top, story_list, items, should_exit, task_pc, thr_pc, thr_list,
                   thr_story, chan, senders, rx_open, received, fetchLog, failures,
                   lock, keep_running, newstory>>
    /\ UNCHANGED apiVars

\* main loop: terminal.draw
MainDraw ==
    /\ mainpc = "draw"
    /\ mainpc' = "event"
    /\ UNCHANGED <<top, story_list, items, should_exit, task_pc, thr_pc, thr_list,
                   thr_story, chan, senders, rx_open, received, fetchLog, failures,
                   lock, keep_running, newstory>>
    /\ UNCHANGED apiVars

\* main loop: event::read() returns, handle_key, the exit check and the delay
MainEvent ==
    /\ mainpc = "event"
    /\ \E quit \in BOOLEAN :
        /\ should_exit' = quit
        /\ mainpc' = IF quit THEN "exited" ELSE "recv"
        /\ rx_open' = ~quit
    /\ UNCHANGED <<top, story_list, items, task_pc, thr_pc, thr_list, thr_story,
                   chan, senders, received, fetchLog, failures,
                   lock, keep_running, newstory>>
    /\ UNCHANGED apiVars

\* ------------------------------------------- update thread (the clone)
\* one turn of the loop up to the send: update_story_details, unwrap, the story
ThreadUpdate ==
    /\ thr_pc = "update"
    /\ \E up \in BOOLEAN :
        LET r == update_story_details(thr_list, up) IN
        /\ (~up) => (r.fetched # <<>> /\ failures < MaxFail)
        /\ thr_list' = r.self
        /\ newstory' = r.result
        /\ fetchLog' = fetchLog \o [k \in 1..Len(r.fetched) |->
                                       [sid |-> r.fetched[k], ok |-> up, by |-> "thread"]]
        /\ failures' = IF r.fetched # <<>> /\ ~up THEN failures + 1 ELSE failures
        /\ IF r.result.ok
           THEN /\ thr_story' = callback_story(r.self, r.result.val)
                /\ thr_pc' = "send"
                /\ senders' = senders
           ELSE \* newstory.unwrap() panics, the thread and its Sender are gone
                /\ thr_story' = thr_story
                /\ thr_pc' = "panicked"
                /\ senders' = senders - 1
    /\ UNCHANGED <<top, story_list, mainpc, items, should_exit, task_pc, chan,
                   rx_open, received, lock, keep_running>>
    /\ UNCHANGED apiVars

\* a bug: the channel takes any number of stories
ThreadSend_unbounded ==
    /\ thr_pc = "send"
    /\ rx_open
    /\ chan' = Append(chan, thr_story)
    /\ thr_pc' = "sleep"
    /\ UNCHANGED <<top, story_list, mainpc, items, should_exit, task_pc, thr_list,
                   thr_story, senders, rx_open, received, fetchLog, failures,
                   lock, keep_running, newstory>>
    /\ UNCHANGED apiVars

\* tx.send(story).await, the Receiver alive and room in the channel
ThreadSend ==
    /\ thr_pc = "send"
    /\ rx_open
    /\ Len(chan) < ChanCap
    /\ chan' = Append(chan, thr_story)
    /\ thr_pc' = "sleep"
    /\ UNCHANGED <<top, story_list, mainpc, items, should_exit, task_pc, thr_list,
                   thr_story, senders, rx_open, received, fetchLog, failures,
                   lock, keep_running, newstory>>
    /\ UNCHANGED apiVars

\* a bug: the send error is reported and the loop goes on
ThreadSendFailed_goes_on ==
    /\ thr_pc = "send"
    /\ ~rx_open
    /\ keep_running' = FALSE
    /\ thr_pc' = "sleep"
    /\ UNCHANGED <<top, story_list, mainpc, items, should_exit, task_pc, thr_list,
                   thr_story, chan, senders, rx_open, received, fetchLog, failures,
                   lock, newstory>>
    /\ UNCHANGED apiVars

\* tx.send(story).await fails, the Receiver is gone: keep_running = false, no
\* sleep, the while loop ends and with it the thread and its Sender
ThreadSendFailed ==
    /\ thr_pc = "send"
    /\ ~rx_open
    /\ keep_running' = FALSE
    /\ thr_pc' = "stopped"
    /\ senders' = senders - 1
    /\ UNCHANGED <<top, story_list, mainpc, items, should_exit, task_pc, thr_list,
                   thr_story, chan, rx_open, received, fetchLog, failures,
                   lock, newstory>>
    /\ UNCHANGED apiVars

\* std::thread::sleep, then the next turn
ThreadSleep ==
    /\ thr_pc = "sleep"
    /\ thr_pc' = "update"
    /\ UNCHANGED <<top, story_list, mainpc, items, should_exit, task_pc, thr_list,
                   thr_story, chan, senders, rx_open, received, fetchLog, failures,
                   lock, keep_running, newstory>>
    /\ UNCHANGED apiVars

\* what main does in its loop, and what the update thread does
MainStep == MainRecv \/ MainRecvClosed \/ MainDraw \/ MainEvent
ThreadStep == ThreadUpdate \/ ThreadSend \/ ThreadSendFailed \/ ThreadSleep

Next ==
    \/ New
    \/ MainIterate
    \/ MainUnlock
    \/ MainSpawn
    \/ TaskLock
    \/ start_update_thread_with_callback
    \/ TaskEnd
    \/ MainRecv
    \/ MainRecvClosed
    \/ MainDraw
    \/ MainEvent
    \/ ThreadUpdate
    \/ ThreadSend
    \/ ThreadSendFailed
    \/ ThreadSleep

Spec == Init /\ [][Next]_vars

\* the program as it is scheduled: the tokio runtime runs the spawned task to
\* its end (the lock it asks for is free once main has dropped its guard), and
\* it wakes main in rx.recv().await once the channel holds a story or has lost
\* its last Sender. Nothing is assumed of the update thread, whose fetch may
\* take for ever, nor of the user, whose key main waits for in event::read.
TaskStep == TaskLock \/ start_update_thread_with_callback \/ TaskEnd
MainRecvStep == MainRecv \/ MainRecvClosed

SpecFair ==
    /\ Init
    /\ [][Next]_vars
    /\ WF_vars(TaskStep)
    /\ WF_vars(MainRecvStep)

\* ------------------------------------------ a ranking longer than the channel
\* SpecLong is the program on a ranking long enough for the update thread to
\* fill the channel: the prefix HnStoryList::new loads, the channel's
\* capacity, and two more
LongIds == PreloadLast + 1 + ChanCap + 2

\* main: HnStoryList::new().await on the long ranking, every fetch succeeding
NewLong ==
    /\ mainpc = "new"
    /\ LET t == fetch_top_stories(TRUE, LongIds) IN
        /\ top' = t
        /\ story_list' = HnStoryList_new(t, {})
        /\ fetchLog' = NewFetches(t.val, {}, "new")
        /\ failures' = 0
    /\ lock' = "free"
    /\ mainpc' = "iterate"
    /\ UNCHANGED <<items, should_exit, task_pc, thr_pc, thr_list, thr_story,
                   chan, senders, rx_open, received, keep_running, newstory>>
    /\ UNCHANGED apiVars

NextLong ==
    \/ NewLong
    \/ MainIterate
    \/ MainUnlock
    \/ MainSpawn
    \/ TaskLock
    \/ start_update_thread_with_callback
    \/ TaskEnd
    \/ MainRecv
    \/ MainRecvClosed
    \/ MainDraw
    \/ MainEvent
    \/ ThreadUpdate
    \/ ThreadSend
    \/ ThreadSendFailed
    \/ ThreadSleep

SpecLong == Init /\ [][NextLong]_vars

\* --------------------------------------- the list's operations, called directly
\* SpecApi drives one HnStoryList through its public operations in any order,
\* as a caller holding the list may; lastCall records each call and its result.
ApiStutter ==
    /\ UNCHANGED progVars

\* HnStoryList::new()
ApiNew ==
    /\ lastCall.op = "none"
    /\ Construct
    /\ lastCall' = [NoCall EXCEPT !.op = "new"]
    /\ UNCHANGED <<calls, directs>>
    /\ ApiStutter

\* the stories a direct caller passes: one placed as the list would place it,
\* one with another id
DirectStories(index) ==
    {HnStory(i, Text("Unknown", 0), Text("direct", 0), None) : i \in {index, 0}}

\* the indexes a direct caller passes: the front, the end (an append) and one
\* past the end
DirectIndexes(self) ==
    {0, Len(self.storylist), Len(self.storylist) + 1}

\* list.add_story_at_index(index, story)
ApiAddStoryAtIndex ==
    /\ lastCall.op # "none"
    /\ calls < MaxCalls
    /\ \E index \in DirectIndexes(story_list) :
       \E story \in DirectStories(index) :
        LET r == add_story_at_index(story_list, index, story) IN
        /\ r.result.ok => directs < MaxDirect
        /\ story_list' = r.self
        /\ directs' = IF r.result.ok THEN directs + 1 ELSE directs
        /\ lastCall' = [lastCall EXCEPT !.op = "add_story_at_index",
                                        !.index = index,
                                        !.result = r.result,
                                        !.before = story_list,
                                        !.fetched = <<>>,
                                        !.retryPos = -1,
                                        !.retrySid = 0]
    /\ calls' = calls + 1
    /\ UNCHANGED <<top, fetchLog, failures>>
    /\ ApiStutter

\* list.update_story_details().await
ApiUpdateStoryDetails ==
    /\ lastCall.op # "none"
    /\ calls < MaxCalls
    /\ \E up \in BOOLEAN :
        LET r == update_story_details(story_list, up)
            failed == r.fetched # <<>> /\ ~up
        IN
        /\ (~up) => (r.fetched # <<>> /\ failures < MaxFail)
        /\ story_list' = r.self
        /\ fetchLog' = fetchLog \o [k \in 1..Len(r.fetched) |->
                                       [sid |-> r.fetched[k], ok |-> up, by |-> "api"]]
        /\ failures' = IF failed THEN failures + 1 ELSE failures
        /\ lastCall' = [lastCall EXCEPT
                            !.op = "update_story_details",
                            !.index = story_list.story_writer,
                            !.result = r.result,
                            !.before = story_list,
                            !.fetched = r.fetched,
                            !.retryPos = IF r.result.ok THEN lastCall.failedPos ELSE -1,
                            !.retrySid = IF r.result.ok THEN lastCall.failedSid ELSE 0,
                            !.failedPos = IF failed THEN story_list.story_writer
                                          ELSE IF r.result.ok THEN -1 ELSE lastCall.failedPos,
                            !.failedSid = IF failed THEN r.fetched[1]
                                          ELSE IF r.result.ok THEN 0 ELSE lastCall.failedSid]
    /\ calls' = calls + 1
    /\ UNCHANGED <<top, directs>>
    /\ ApiStutter

NextApi ==
    \/ ApiNew
    \/ ApiAddStoryAtIndex
    \/ ApiUpdateStoryDetails

SpecApi == Init /\ [][NextApi]_vars

\* ===================================================================
\* Properties of the list's operations (SpecApi)
\* ===================================================================
Constructed == lastCall.op # "none"
IsUpdate == lastCall.op = "update_story_details"
IsAdd == lastCall.op = "add_story_at_index"
\* the last call was an update_story_details whose detail fetch failed
FetchFailed == IsUpdate /\ lastCall.fetched # <<>> /\ ~lastCall.result.ok

\* C1, as stated: after construction and after any sequence of
\* add_story_at_index / update_story_details calls, the number of stored
\* stories equals story_writer.
C1_LenEqualsCursor ==
    Len(story_list.storylist) = story_list.story_writer

\* C1, amended: the number of stored stories equals story_writer plus the
\* number of successful direct add_story_at_index calls; construction,
\* update_story_details (succeeding or failing) and failing
\* add_story_at_index calls keep the two equal.
C1_LenIsCursorPlusDirect ==
    Len(story_list.storylist) = story_list.story_writer + directs

\* an update_story_details has committed a story after a direct insertion
C1_Witness ==
    /\ IsUpdate
    /\ lastCall.result.ok
    /\ directs = 1
    /\ story_list.story_writer = PreloadLast + 2

\* C4: an update_story_details whose detail fetch fails returns an error and
\* leaves the list as it was; the next update_story_details that succeeds
\* fetches the same identifier and commits its story at the same position.
C4_FailedFetchChangesNothing ==
    /\ FetchFailed =>
        /\ lastCall.result = Err("Failed to fetch story details")
        /\ story_list = lastCall.before
        /\ lastCall.failedPos = story_list.story_writer
        /\ lastCall.failedSid = story_list.storyidlist[story_list.story_writer + 1]
    /\ (IsUpdate /\ lastCall.result.ok /\ lastCall.retryPos # -1) =>
        /\ lastCall.fetched = <<lastCall.retrySid>>
        /\ lastCall.result.val.id = lastCall.retryPos
        /\ story_list.story_writer = lastCall.retryPos + 1
        /\ story_list.storylist[lastCall.retryPos + 1] = lastCall.result.val
        /\ lastCall.result.val.title =
               unwrap_or_else(RemoteStory(lastCall.retrySid).title, Text("Untitled", 0))

\* a failed update_story_details has been retried with success
C4_Witness ==
    /\ IsUpdate
    /\ lastCall.result.ok
    /\ lastCall.retryPos = PreloadLast + 1
    /\ failures >= 1

\* C5: update_story_details on a filled list (story_writer = story_maxlen)
\* fails with "No more stories to process", issues no fetch and leaves the
\* list unchanged.
C5_ExhaustedChangesNothing ==
    (IsUpdate /\ is_filled(lastCall.before)) =>
        /\ lastCall.result = Err("No more stories to process")
        /\ lastCall.fetched = <<>>
        /\ story_list = lastCall.before

\* update_story_details was called on a list filled by earlier updates
C5_Witness ==
    /\ IsUpdate
    /\ is_filled(lastCall.before)
    /\ lastCall.before.story_maxlen = PreloadLast + 2
    /\ ~lastCall.result.ok

\* C6: add_story_at_index with an index greater than the number of stored
\* stories fails with "Index out of bounds" and leaves the list unchanged.
C6_OutOfRangeChangesNothing ==
    (IsAdd /\ lastCall.index > Len(lastCall.before.storylist)) =>
        /\ lastCall.result = Err("Index out of bounds")
        /\ story_list = lastCall.before

\* add_story_at_index was called one past the end of a non-empty list
C6_Witness ==
    /\ IsAdd
    /\ lastCall.index = Len(lastCall.before.storylist) + 1
    /\ lastCall.index > 1
    /\ ~lastCall.result.ok

\* ===================================================================
\* Properties of the running program (Spec)
\* ===================================================================
\* the lists that exist: main's, and the update thread's once it has its clone
Lists == {story_list} \cup (IF thr_pc = "none" THEN {} ELSE {thr_list})
\* the update thread has left its loop
UpdaterEnded == thr_pc \in {"panicked", "stopped"}
\* stories sent and not yet received, the one being sent included
InFlight == Len(chan) + (IF thr_pc = "send" THEN 1 ELSE 0)
Positions(stories) == [k \in 1..Len(stories) |-> stories[k].id]

\* C2: in every list of the program, the story stored at index i has id i.
C2_PositionIsIndex ==
    \A l \in Lists : \A i \in 1..Len(l.storylist) : l.storylist[i].id = i - 1

\* the update thread has committed two stories behind the constructed prefix
C2_Witness ==
    /\ thr_pc # "none"
    /\ Len(thr_list.storylist) = PreloadLast + 3
    /\ thr_list.story_writer = PreloadLast + 3

\* C3: in every list of the program
\* 0 <= story_writer <= story_maxlen <= Len(storyidlist).
C3_CursorWithinLimit ==
    \A l \in Lists :
        /\ 0 <= l.story_writer
        /\ l.story_writer <= l.story_maxlen
        /\ l.story_maxlen <= Len(l.storyidlist)

\* the update thread advanced its list to the limit and asked for one more
C3_Witness ==
    /\ thr_pc = "panicked"
    /\ failures = 0
    /\ thr_list.story_writer = thr_list.story_maxlen
    /\ thr_list.story_maxlen = PreloadLast + 3

\* the detail fetches of the update thread that succeeded, in order
ThreadFetched ==
    SelectSeq(fetchLog, LAMBDA f : f.by = "thread" /\ f.ok)
\* the index of an identifier in the list of identifiers
IndexOf(ids, sid) == CHOOSE k \in 1..Len(ids) : ids[k] = sid

\* C7: the stories main receives over the channel come with strictly
\* increasing ids, the one received earlier having the smaller id, and in the
\* order of the identifiers: the k-th story received carries the title of the
\* k-th identifier the update thread fetched, and those identifiers were
\* fetched in the order of storyidlist.
C7_ReceivedInIncreasingOrder ==
    /\ \A i, j \in 1..Len(received) : i < j => received[i].id < received[j].id
    /\ \A k \in 1..Len(received) :
        /\ k <= Len(ThreadFetched)
        /\ received[k].title =
               unwrap_or_else(RemoteStory(ThreadFetched[k].sid).title, Text("Untitled", 0))
    /\ \A i, j \in 1..Len(ThreadFetched) :
        i < j => IndexOf(thr_list.storyidlist, ThreadFetched[i].sid)
                     < IndexOf(thr_list.storyidlist, ThreadFetched[j].sid)

\* main has received two stories
C7_Witness ==
    Len(received) >= 2

\* C8: the k-th story received over the channel is the story
\* update_story_details returned and committed at index k of the list, with
\* id k and the fetched title and url.
C8_ReceivedIsCommitted ==
    \A k \in 1..Len(received) :
        /\ k <= Len(thr_list.storylist)
        /\ received[k] = thr_list.storylist[k]
        /\ received[k].id = k - 1

\* C9: with every fetch succeeding and main still receiving, once the update
\* thread has ended and the channel is drained, main has received exactly
\* story_maxlen stories over the channel, with ids 0 .. story_maxlen - 1 in
\* order, and the list is filled.
C9_AllDeliveredInOrder ==
    (top.ok /\ failures = 0 /\ UpdaterEnded /\ rx_open /\ chan = <<>>) =>
        /\ Positions(received) = [k \in 1..thr_list.story_maxlen |-> k - 1]
        /\ is_filled(thr_list)

\* C10: after a failed identifier-list fetch the list has no identifiers and
\* story_maxlen 0 and is filled, no detail fetch is ever made and nothing is
\* sent or received over the channel.
C10_FailedTopFetchIsInert ==
    (mainpc # "new" /\ ~top.ok) =>
        /\ \A l \in Lists :
            /\ l.storyidlist = <<>>
            /\ l.story_maxlen = 0
            /\ is_filled(l)
        /\ fetchLog = <<>>
        /\ InFlight = 0
        /\ received = <<>>
        /\ items = <<>>

\* the identifier fetch failed, the update thread has run and ended, and main
\* has come back from rx.recv() with nothing
C10_Witness ==
    /\ mainpc = "event"
    /\ ~top.ok
    /\ UpdaterEnded
    /\ received = <<>>

\* C11: right after a construction from a successful identifier fetch the
\* list holds no story and story_writer is 0.
C11_ConstructionMaterializesNothing ==
    (mainpc = "iterate" /\ top.ok) =>
        /\ story_list.storylist = <<>>
        /\ story_list.story_writer = 0

\* the detail fetches of an identifier that succeeded
SuccessfulFetches(sid) ==
    {k \in 1..Len(fetchLog) : fetchLog[k].ok /\ fetchLog[k].sid = sid}

\* C12: every story in a list or received by main stands for exactly one
\* successful detail fetch of the identifier at its position (its id), and a
\* list's story_writer never exceeds the number of detail fetches that
\* succeeded: a failed fetch yields no story and moves no writer.
C12_OneSuccessfulFetchPerStory ==
    /\ \A l \in Lists : \A i \in 1..Len(l.storylist) :
        LET p == l.storylist[i].id IN
        /\ p < Len(l.storyidlist)
        /\ Cardinality(SuccessfulFetches(l.storyidlist[p + 1])) = 1
    /\ \A k \in 1..Len(received) :
        LET p == received[k].id IN
        /\ p < Len(thr_list.storyidlist)
        /\ Cardinality(SuccessfulFetches(thr_list.storyidlist[p + 1])) = 1
    /\ \A l \in Lists :
        l.story_writer <= Cardinality({k \in 1..Len(fetchLog) : fetchLog[k].ok})

\* what the display shows of its items, in order
Shown(its) == [k \in 1..Len(its) |-> <<its[k].title, its[k].details>>]

\* C13: every step leaves the display's items as they were or extends them at
\* the end: the items never get fewer and those already shown keep their order.
C13_DisplayOnlyGrowsAtEnd ==
    [][/\ Len(items') >= Len(items)
       /\ SubSeq(Shown(items'), 1, Len(items)) = Shown(items)]_vars

\* the display has grown by two received stories behind a constructed prefix
\* that met a failed fetch
C13_Witness ==
    /\ Len(items) = PreloadLast + 3
    /\ Len(received) = 2
    /\ failures >= 1

\* C14: while the channel is empty and still open, main can take a step of
\* its loop (draw, read input) without a story arriving first.
C14_RenderNeverWaitsForStory ==
    (mainpc \in {"recv", "draw", "event"} /\ chan = <<>> /\ senders > 0 /\ rx_open) =>
        ENABLED MainStep

\* C15: after update_story_details has returned a fetch error to the update
\* thread, the thread is still in its loop, about to sleep or to try again.
C15_UpdaterRetriesAfterFetchError ==
    (thr_pc # "none" /\ newstory.err = "Failed to fetch story details") =>
        /\ thr_pc \in {"update", "sleep"}
        /\ keep_running

\* C16: the update thread never calls update_story_details on a filled list
\* (it is never told "No more stories to process") and does not end in a
\* panic once its list is filled.
C16_UpdaterStopsWhenFilled ==
    thr_pc # "none" =>
        /\ newstory.err # "No more stories to process"
        /\ is_filled(thr_list) => thr_pc # "panicked"

\* C17: once a send has failed (keep_running is false) the update thread has
\* left its loop and takes no further step: no fetch, no commit, no send.
C17_FailedSendStopsUpdater ==
    ~keep_running =>
        /\ thr_pc = "stopped"
        /\ ~ENABLED ThreadStep

\* a send failed after the update thread had committed a story
C17_Witness ==
    /\ ~keep_running
    /\ ~rx_open
    /\ thr_list.story_writer > PreloadLast + 1

\* stories the update thread has committed to its list
Committed == thr_list.story_writer - story_list.story_writer

\* C18: the channel never holds more stories than its capacity, a send on a
\* full channel leaves the update thread without a step until main receives,
\* and the update thread is never more than capacity + 1 committed stories
\* ahead of what main has received.
C18_ChannelIsBounded ==
    /\ Len(chan) <= ChanCap
    /\ (thr_pc = "send" /\ rx_open /\ Len(chan) = ChanCap) => ~ENABLED ThreadStep
    /\ thr_pc # "none" => Committed - Len(received) <= ChanCap + 1

\* the update thread is blocked in a send on the full channel
C18_Witness ==
    /\ thr_pc = "send"
    /\ rx_open
    /\ Len(chan) = ChanCap
    /\ Committed - Len(received) = ChanCap + 1

\* C19: once the update thread runs, the list main and other observers read
\* has the story_writer and the stories of the list the update thread writes.
C19_ObserversSeeUpdatersList ==
    thr_pc # "none" =>
        /\ story_list.story_writer = thr_list.story_writer
        /\ story_list.storylist = thr_list.storylist

C21_ReceiveIsReleased ==
    /\ [](mainpc = "recv" => (ENABLED MainRecvStep <=> (chan # <<>> \/ senders = 0)))
    /\ (UpdaterEnded ~> senders = 0)
    /\ ((mainpc = "recv" /\ UpdaterEnded) ~> mainpc # "recv")
    /\ ((mainpc = "recv" /\ UpdaterEnded /\ chan = <<>>)
            ~> (mainpc = "draw" /\ chan = <<>> /\ senders = 0))

\* the update thread met a fetch error before it sent anything, and main has
\* come back from rx.recv() with None
C21_Witness ==
    /\ mainpc = "draw"
    /\ top.ok
    /\ thr_pc = "panicked"
    /\ newstory.err = "Failed to fetch story details"
    /\ received = <<>>
    /\ senders = 0

\* C22: in every state the operations of the list can reach, is_filled
\* (story_writer == story_maxlen) is true exactly when update_story_details
\* (story_writer >= story_maxlen) would fail with "No more stories to
\* process", whether its fetch would succeed or not; and every
\* update_story_details made did fail that way exactly when is_filled held
\* before it.  The two tests agree because story_writer never passes
\* story_maxlen.
C22_IsFilledIffExhausted ==
    Constructed =>
        /\ \A up \in BOOLEAN :
            is_filled(story_list) <=>
                (update_story_details(story_list, up).result
                     = Err("No more stories to process"))
        /\ IsUpdate =>
            (is_filled(lastCall.before) <=>
                 (lastCall.result = Err("No more stories to process")))
        /\ story_list.story_writer <= story_list.story_maxlen

\* the second commit of update_story_details has just filled a list that was
\* not filled before it
C22_Witness ==
    /\ IsUpdate
    /\ lastCall.result.ok
    /\ ~is_filled(lastCall.before)
    /\ is_filled(story_list)
    /\ story_list.story_maxlen = PreloadLast + 3

====
